---------------------------- MODULE Spec2Model ----------------------------
(***************************************************************************)
(* A model of the moviemodel backend:                                      *)
(*   - GenresBinarizer      (backend/transformers.py)                      *)
(*   - make_bins and main   (backend/train_model_reg.py)                   *)
(*   - the /predict handler (backend/server_reg.py)                        *)
(*                                                                         *)
(* Strings are sequences of one-character strings, so that split("|") and  *)
(* strip() are computed rather than assumed.  Real numbers are integers in *)
(* a fixed unit (tenths for scores, thousandths at the serving boundary);  *)
(* quantiles are computed exactly, on values scaled by the quantile count. *)
(***************************************************************************)
EXTENDS Integers, Sequences, FiniteSets, TLC

VARIABLES
    vocab,      \* GenresBinarizer.vocab   : None or Some(list of tokens)
    top_k,      \* GenresBinarizer.top_k
    classes_,   \* GenresBinarizer.classes_: None or Some(list of tokens)
    gbOp,       \* the last call on the instance: "init", "fit", "transform"
    gbX,        \* the column given to the last transform call
    gbOut,      \* what the last transform call returned: None or Some(matrix)
    gbErr,      \* what the last call raised: "" or "RuntimeError"
    gbFits,     \* whether a fit call has completed on the instance
    y_cont,     \* make_bins: the argument y (main: df[TARGET].values)
    bin_mode,   \* make_bins: the argument mode (main: BIN_MODE)
    nClasses,   \* make_bins: the argument n_classes (main: N_CLASSES)
    fixedEdges, \* make_bins: the argument fixed_edges (main: FIXED_EDGES)
    binned,     \* what make_bins returned or raised: None or Some(result)
    num_class,  \* main: the num_class given to XGBClassifier, None before
    pc,         \* main: "start", "binned", "split", "built", "failed";
                \* "call" / "done" for a direct call of make_bins; else "idle"
    ALLOWED_CONTENT_RATINGS, \* server: the allowed set read from META
    estimators_,\* server: the model's estimators_: None (no such attribute) or
                \* Some(number of member estimators)
    req,        \* server: the last /predict request: None or Some(request)
    pipeX,      \* server: the frame X given to pipe.predict: None or Some(row)
    pipeCalls,  \* server: calls of pipe.predict made for the last request
    estCalls,   \* server: calls of a member's predict made for the last request
    indiv,      \* server: what the members returned or raised, as far as they
                \* were asked: None or Some(sequence)
    score,      \* server: what pipe.predict returned for the last request:
                \* None or Some(float)
    resp        \* server: the last response

gbVars == <<vocab, top_k, classes_, gbOp, gbX, gbOut, gbErr, gbFits>>
binVars == <<y_cont, bin_mode, nClasses, fixedEdges, binned, num_class, pc>>
srvVars == <<ALLOWED_CONTENT_RATINGS, estimators_, req, pipeX, pipeCalls, estCalls,
             indiv, score, resp>>

-----------------------------------------------------------------------------
(* Bounds of the model *)

\* largest column handed to fit or transform: its rows and the characters of
\* its strings, counted together
MaxSize == 5
\* largest top_k
MaxTopK == 2
\* most target values handed to a direct call of make_bins
MaxY == 2
\* largest target value and edge value in a direct call of make_bins
MaxVal == 3
\* largest n_classes in a direct call of make_bins
MaxClasses == 3
\* most rows of the training data
MaxScores == 4
\* most member estimators of the served model
MaxEst == 2

-----------------------------------------------------------------------------
(* Python's None and present values *)

None == << >>
Some(x) == << x >>
Get(o) == o[1]

Range(s) == { s[i] : i \in 1..Len(s) }

SeqsUpTo(S, n) == UNION { [1..k -> S] : k \in 0..n }

-----------------------------------------------------------------------------
(* Strings *)

Alphabet == { "a", " ", "|" }

Strings == SeqsUpTo(Alphabet, MaxSize - 1)

\* a cell of the column: a string, or a missing value (None / NaN)
NaN == [isna |-> TRUE, str |-> << >>]
Str(s) == [isna |-> FALSE, str |-> s]
Cells == { NaN } \cup { Str(s) : s \in Strings }

\* rows and characters of a column
RECURSIVE size(_)
size(col) ==
    IF col = << >> THEN 0 ELSE 1 + Len(Head(col).str) + size(Tail(col))

\* the cells that fit in a column with room for n more rows and characters
CellsThatFit == [ n \in 0..MaxSize |-> { c \in Cells : 1 + Len(c.str) <= n } ]

\* Series.fillna("")
fillna(c) == IF c.isna THEN << >> ELSE c.str

\* str.split("|"): the pieces between separators, empty pieces kept
RECURSIVE split(_)
split(s) ==
    IF \A i \in 1..Len(s) : s[i] # "|"
    THEN << s >>
    ELSE LET p == CHOOSE i \in 1..Len(s) :
                      s[i] = "|" /\ \A j \in 1..(i - 1) : s[j] # "|"
         IN  << SubSeq(s, 1, p - 1) >> \o split(SubSeq(s, p + 1, Len(s)))

\* str.strip(): leading and trailing whitespace removed
RECURSIVE lstrip(_)
lstrip(s) == IF s # << >> /\ Head(s) = " " THEN lstrip(Tail(s)) ELSE s

RECURSIVE rstrip(_)
rstrip(s) ==
    IF s # << >> /\ s[Len(s)] = " " THEN rstrip(SubSeq(s, 1, Len(s) - 1)) ELSE s

strip(s) == rstrip(lstrip(s))

\* list concatenation of a list of lists (Series.explode)
RECURSIVE explode(_)
explode(ls) == IF ls = << >> THEN << >> ELSE Head(ls) \o explode(Tail(ls))

NonEmpty(x) == x # << >>


-----------------------------------------------------------------------------
(* GenresBinarizer *)

\* vocabularies a caller may pass to the constructor: none, one token, a
\* repeated token, and three tokens of which one is not trimmed
Vocabs ==
    { None,
      Some(<< <<"a">> >>),
      Some(<< <<"a">>, <<"a">> >>),
      Some(<< <<"a", "a">>, <<" ", "a">>, <<"a">> >>) }

\* fit: s.str.split("|").explode().str.strip(), then exploded[exploded != ""]
fitTokens(X) ==
    LET pieces   == explode([ i \in 1..Len(X) |-> split(fillna(X[i])) ])
        stripped == [ i \in 1..Len(pieces) |-> strip(pieces[i]) ]
    IN  SelectSeq(stripped, NonEmpty)

\* number of occurrences of token t
count(tokens, t) == Cardinality({ i \in 1..Len(tokens) : tokens[i] = t })

\* value_counts().index: the distinct tokens, most frequent first; the order
\* among equally frequent tokens is whatever the sort leaves, so every such
\* order is a possible result
value_counts(tokens) ==
    LET T == Range(tokens)
    IN  { s \in [1..Cardinality(T) -> T] :
            /\ \A i, j \in 1..Cardinality(T) : i # j => s[i] # s[j]
            /\ \A i, j \in 1..Cardinality(T) :
                   i < j => count(tokens, s[i]) >= count(tokens, s[j]) }

\* Series.head(k) for k >= 0
head(s, k) == SubSeq(s, 1, IF k < Len(s) THEN k ELSE Len(s))

\* fit without the cap: every counted token kept
fitClassesNoCap(v, k, X) ==
    IF v = None
    THEN value_counts(fitTokens(X))
    ELSE { Get(v) }

\* the values fit may assign to classes_
fitClasses(v, k, X) ==
    IF v = None
    THEN { head(idx, k) : idx \in value_counts(fitTokens(X)) }
    ELSE { Get(v) }

\* the tags kept as split, not stripped
rowTagsNoStrip(cell) ==
    SelectSeq(split(fillna(cell)), LAMBDA x : x # << >> /\ strip(x) # << >>)

\* transform: [x.strip() for x in xs if x and x.strip()]
rowTags(cell) ==
    LET xs   == split(fillna(cell))
        kept == SelectSeq(xs, LAMBDA x : x # << >> /\ strip(x) # << >>)
    IN  [ i \in 1..Len(kept) |-> strip(kept[i]) ]

\* idx_map = {g: i for i, g in enumerate(classes_)}: a repeated token keeps
\* its last index (indices are 1-based here)
idx_map(classes) ==
    [ g \in Range(classes) |->
        CHOOSE i \in 1..Len(classes) :
            classes[i] = g /\ \A j \in (i + 1)..Len(classes) : classes[j] # g ]

\* one row of out counting occurrences: out[row, idx_map[g]] += 1.0
transformRowCounts(classes, cell) ==
    LET m    == idx_map(classes)
        tags == rowTags(cell)
    IN  [ i \in 1..Len(classes) |->
            Cardinality({ t \in 1..Len(tags) :
                            tags[t] \in DOMAIN m /\ m[tags[t]] = i }) ]

\* one row of out: zeros, then out[row, idx_map[g]] = 1.0 for each known tag
transformRow(classes, cell) ==
    LET m    == idx_map(classes)
        hits == { m[g] : g \in Range(rowTags(cell)) \cap DOMAIN m }
    IN  [ i \in 1..Len(classes) |-> IF i \in hits THEN 1 ELSE 0 ]

transformOut(classes, X) ==
    [ r \in 1..Len(X) |-> transformRow(classes, X[r]) ]

\* the guard written as "not self.classes_": an empty list counts as unfitted
notFittedFalsy(c) == c = None \/ Get(c) = << >>

\* the guard of transform: classes_ is None
notFitted(c) == c = None

\* GenresBinarizer(vocab, top_k)
GBInit ==
    /\ vocab \in Vocabs
    /\ top_k \in 0..MaxTopK
    /\ classes_ = None
    /\ gbOp = "init"
    /\ gbX = << >>
    /\ gbOut = None
    /\ gbErr = ""
    /\ gbFits = FALSE

\* the caller starts a new column
NewColumn ==
    /\ gbX # << >>
    /\ gbX' = << >>
    /\ gbOp' = "build"
    /\ gbOut' = None
    /\ gbErr' = ""
    /\ UNCHANGED <<vocab, top_k, classes_, gbFits>>
    /\ UNCHANGED <<binVars, srvVars>>

\* the caller adds a row to the column
AddRow ==
    /\ \E c \in CellsThatFit[MaxSize - size(gbX)] : gbX' = Append(gbX, c)
    /\ gbOp' = "build"
    /\ gbOut' = None
    /\ gbErr' = ""
    /\ UNCHANGED <<vocab, top_k, classes_, gbFits>>
    /\ UNCHANGED <<binVars, srvVars>>

fit ==
    /\ \E c \in fitClasses(vocab, top_k, gbX) : classes_' = Some(c)
    /\ gbOp' = "fit"
    /\ gbOut' = None
    /\ gbErr' = ""
    /\ gbFits' = TRUE
    /\ UNCHANGED <<vocab, top_k, gbX>>
    /\ UNCHANGED <<binVars, srvVars>>

transform ==
    /\ gbOp' = "transform"
    /\ IF notFitted(classes_)
       THEN /\ gbErr' = "RuntimeError"
            /\ gbOut' = None
       ELSE /\ gbErr' = ""
            /\ gbOut' = Some(transformOut(Get(classes_), gbX))
    /\ UNCHANGED <<vocab, top_k, classes_, gbX, gbFits>>
    /\ UNCHANGED <<binVars, srvVars>>

GBNext == NewColumn \/ AddRow \/ fit \/ transform

-----------------------------------------------------------------------------
(* make_bins *)

\* Target values are integers.  In the training job they are scores in half
\* points (13 is 6.5).  make_bins returns its edges as numerators over the
\* denominator den: 1 in fixed mode, n_classes in quantile mode, where the
\* interpolated quantiles are then exact.

\* number of elements of a that are < v, resp. <= v: np.searchsorted on a
\* sorted array, side="left" resp. side="right"
searchsorted(a, v, side) ==
    IF side = "left"
    THEN Cardinality({ i \in 1..Len(a) : a[i] < v })
    ELSE Cardinality({ i \in 1..Len(a) : a[i] <= v })

reverse(a) == [ i \in 1..Len(a) |-> a[Len(a) + 1 - i] ]

\* numpy's monotonicity check of the bins: 1 non-decreasing, -1 non-increasing,
\* 0 neither
monotonicity(bins) ==
    IF \A i \in 1..(Len(bins) - 1) : bins[i] <= bins[i + 1] THEN 1
    ELSE IF \A i \in 1..(Len(bins) - 1) : bins[i] >= bins[i + 1] THEN -1
    ELSE 0

\* np.digitize(x, bins, right=False) for one value, bins monotonic
digitize(x, bins) ==
    IF monotonicity(bins) = -1
    THEN Len(bins) - searchsorted(reverse(bins), x, "right")
    ELSE searchsorted(bins, x, "right")

\* all the edges, the outer two included
innerAll(edges) == edges

\* edges[1:-1]
inner(edges) == SubSeq(edges, 2, Len(edges) - 1)

\* f"{v:.1f}" of the value num/den half points, in tenths of a point, halves
\* rounded to even
fmt1(num, den) ==
    LET a == IF num < 0 THEN -num ELSE num
        q == (5 * a) \div den
        r == (5 * a) % den
        m == IF 2 * r > den \/ (2 * r = den /\ q % 2 = 1) THEN q + 1 ELSE q
    IN  IF num < 0 THEN -m ELSE m

\* the labels loop of either mode
bin_labels(edges, den, n) ==
    [ i \in 1..n |->
        [ a |-> fmt1(edges[i], den), b |-> fmt1(edges[i + 1], den),
          right_br |-> IF i < n THEN ")" ELSE "]" ] ]

\* the values of y in non-decreasing order
RECURSIVE insert(_, _)
insert(s, v) ==
    IF s = << >> \/ v <= Head(s) THEN << v >> \o s
    ELSE << Head(s) >> \o insert(Tail(s), v)

RECURSIVE sorted(_)
sorted(y) == IF y = << >> THEN << >> ELSE insert(sorted(Tail(y)), Head(y))

\* Series.quantile(k/q), linear interpolation, as a numerator over q
quantile(y, k, q) ==
    LET s  == sorted(y)
        h  == (Len(y) - 1) * k
        lo == h \div q
        fr == h % q
    IN  IF fr = 0 THEN q * s[lo + 1]
        ELSE q * s[lo + 1] + (s[lo + 2] - s[lo + 1]) * fr

\* algos.unique of a non-decreasing sequence
RECURSIVE unique(_)
unique(b) ==
    IF Len(b) <= 1 THEN b
    ELSE IF b[1] = b[2] THEN unique(Tail(b))
    ELSE << b[1] >> \o unique(Tail(b))

\* the bins pd.qcut(..., duplicates="drop") keeps
qcut_bins(y, q) ==
    LET bins == [ k \in 1..(q + 1) |-> quantile(y, k - 1, q) ]
        u    == unique(bins)
    IN  IF Len(u) < Len(bins) /\ Len(bins) # 2 THEN u ELSE bins

\* the category code pd.qcut gives value v (right-closed intervals, the
\* lowest edge included; -1 for a value in no interval)
qcut_code(v, bins, q) ==
    LET raw == searchsorted(bins, q * v, "left")
        ids == IF q * v = bins[1] THEN 1 ELSE raw
    IN  IF ids = Len(bins) \/ ids = 0 THEN -1 ELSE ids - 1

Returned(cls, edges, den, labels) ==
    [ raised |-> "", cls |-> cls, edges |-> edges, den |-> den,
      labels |-> labels ]

Raised(e) ==
    [ raised |-> e, cls |-> << >>, edges |-> << >>, den |-> 1,
      labels |-> << >> ]

\* the fixed branch of make_bins
make_bins_fixed(y, n_classes, fixed_edges) ==
    IF fixed_edges = None \/ Get(fixed_edges) = << >>
          \/ Len(Get(fixed_edges)) # n_classes + 1
    THEN Raised("AssertionError")
    ELSE LET edges == Get(fixed_edges)
         IN  IF monotonicity(inner(edges)) = 0
             THEN Raised("ValueError")
             ELSE Returned([ i \in 1..Len(y) |-> digitize(y[i], inner(edges)) ],
                           edges, 1, bin_labels(edges, 1, n_classes))

\* the quantile branch of make_bins
make_bins_quantile(y, n_classes) ==
    LET edges == qcut_bins(y, n_classes)
        real_classes == Len(edges) - 1
    IN  Returned([ i \in 1..Len(y) |-> qcut_code(y[i], edges, n_classes) ],
                 edges, n_classes, bin_labels(edges, n_classes, real_classes))

make_bins(y, mode, n_classes, fixed_edges) ==
    IF mode = "fixed"
    THEN make_bins_fixed(y, n_classes, fixed_edges)
    ELSE make_bins_quantile(y, n_classes)

-----------------------------------------------------------------------------
(* A direct call of make_bins, with any arguments *)

Vals == 0..MaxVal

CallInit ==
    /\ y_cont \in SeqsUpTo(Vals, MaxY) \ { << >> }
    /\ bin_mode \in { "quantile", "fixed" }
    /\ nClasses \in 1..MaxClasses
    /\ fixedEdges \in { None } \cup
                       { Some(e) : e \in SeqsUpTo(Vals, MaxClasses + 2) }
    /\ binned = None
    /\ num_class = None
    /\ pc = "call"

call_make_bins ==
    /\ pc = "call"
    /\ binned' = Some(make_bins(y_cont, bin_mode, nClasses, fixedEdges))
    /\ pc' = "done"
    /\ UNCHANGED <<y_cont, bin_mode, nClasses, fixedEdges, num_class>>
    /\ UNCHANGED <<gbVars, srvVars>>

-----------------------------------------------------------------------------
(* The training job main() *)

N_CLASSES == 5

\* FIXED_EDGES = [0.0, 5.0, 6.5, 7.5, 8.5, 10.0], in half points
FIXED_EDGES == << 0, 10, 13, 15, 17, 20 >>

\* TEST_SIZE = 0.2 = 1 / TestSizeInv
TestSizeInv == 5

\* scores the training data may hold, in half points: a value below all the
\* edges, the first edge, a value inside the first interval, two interior
\* edges, the last edge, and a value above all the edges
ScoreVals == { -1, 0, 5, 10, 13, 20, 21 }

\* np.unique(y_cls)
np_unique(cls) == Range(cls)

\* whether train_test_split(..., test_size=TEST_SIZE, stratify=y_cls) raises:
\* an empty train set, a class with fewer than 2 members, or fewer train or
\* test rows than classes
split_raises(cls) ==
    LET n       == Len(cls)
        n_test  == (n + TestSizeInv - 1) \div TestSizeInv
        n_train == ((TestSizeInv - 1) * n) \div TestSizeInv
        k       == Cardinality(np_unique(cls))
    IN  \/ n_train = 0
        \/ \E c \in np_unique(cls) :
               Cardinality({ i \in 1..n : cls[i] = c }) < 2
        \/ n_train < k
        \/ n_test < k

\* the num_class main gives XGBClassifier
clf_num_class(cls) == Cardinality(np_unique(cls))

TrainInit ==
    /\ y_cont \in SeqsUpTo(ScoreVals, MaxScores) \ { << >> }
    /\ bin_mode \in { "quantile", "fixed" }
    /\ nClasses = N_CLASSES
    /\ fixedEdges = Some(FIXED_EDGES)
    /\ binned = None
    /\ num_class = None
    /\ pc = "start"

main_make_bins ==
    /\ pc = "start"
    /\ binned' = Some(make_bins(y_cont, bin_mode, nClasses, fixedEdges))
    /\ pc' = IF Get(binned').raised = "" THEN "binned" ELSE "failed"
    /\ UNCHANGED <<y_cont, bin_mode, nClasses, fixedEdges, num_class>>
    /\ UNCHANGED <<gbVars, srvVars>>

main_split ==
    /\ pc = "binned"
    /\ pc' = IF split_raises(Get(binned).cls) THEN "failed" ELSE "split"
    /\ UNCHANGED <<y_cont, bin_mode, nClasses, fixedEdges, binned, num_class>>
    /\ UNCHANGED <<gbVars, srvVars>>

main_build_clf ==
    /\ pc = "split"
    /\ num_class' = Some(clf_num_class(Get(binned).cls))
    /\ pc' = "built"
    /\ UNCHANGED <<y_cont, bin_mode, nClasses, fixedEdges, binned>>
    /\ UNCHANGED <<gbVars, srvVars>>

-----------------------------------------------------------------------------
(* The /predict handler of server_reg.py *)

\* Floats at the serving boundary are integers in thousandths, or nan; the
\* response carries hundredths (round(x, 2)).
Num(v) == [kind |-> "num", v |-> v]
NanF == [kind |-> "nan", v |-> 0]
Raises == [kind |-> "raise", v |-> 0]

\* Python's a < b on floats: False when either is nan
lt(a, b) == a.kind = "num" /\ b.kind = "num" /\ a.v < b.v

\* Python's min(a, b) and max(a, b): the first argument unless the second is
\* strictly smaller, resp. larger
pymin(a, b) == IF lt(b, a) THEN b ELSE a
pymax(a, b) == IF lt(a, b) THEN b ELSE a

\* the clamp without its lower end: min(10.0, score)
clampScoreUpperOnly(sc) == pymin(Num(10000), sc)

\* score_clamped = max(0.0, min(10.0, score))
clamp_score(sc) == pymax(Num(0), pymin(Num(10000), sc))

\* round(x, 2): thousandths to hundredths, halves to even
round2(x) ==
    LET q == x.v \div 10
        r == x.v % 10
    IN  IF x.kind # "num" THEN x
        ELSE Num(IF r > 5 \/ (r = 5 /\ q % 2 = 1) THEN q + 1 ELSE q)

\* the integer square root of v, known to lie in lo..hi, by bisection
RECURSIVE isqrt_between(_, _, _)
isqrt_between(v, lo, hi) ==
    IF lo >= hi THEN lo
    ELSE LET mid == (lo + hi + 1) \div 2
         IN  IF mid * mid <= v THEN isqrt_between(v, mid, hi)
             ELSE isqrt_between(v, lo, mid - 1)

RECURSIVE sum(_)
sum(s) == IF s = << >> THEN 0 ELSE Head(s) + sum(Tail(s))

\* float(np.std(indiv)): the population standard deviation, nan for an empty
\* array or one holding a nan
np_std(vals) ==
    IF vals = << >> \/ \E i \in 1..Len(vals) : vals[i].kind # "num"
    THEN NanF
    ELSE LET n  == Len(vals)
             xs == [ i \in 1..n |-> vals[i].v ]
             sq == [ i \in 1..n |-> vals[i].v * vals[i].v ]
             spread == CHOOSE d \in { xs[i] - xs[j] : i, j \in 1..n } :
                           \A i, j \in 1..n : xs[i] - xs[j] <= d
         IN  Num(isqrt_between(n * sum(sq) - sum(xs) * sum(xs), 0, n * spread)
                     \div n)

\* 1.0 - std / 2.5
one_minus(std) ==
    IF std.kind # "num" THEN NanF ELSE Num(1000 - (2 * std.v) \div 5)

\* confidence = max(0.0, min(1.0, 1.0 - std / 2.5))
clamp_confidence(std) == pymax(Num(0), pymin(Num(1000), one_minus(std)))

\* the neutral confidence the handler starts from
DefaultConfidence == Num(500)

\* the members asked before one raises, that one included
asked(outs) ==
    IF \E i \in 1..Len(outs) : outs[i].kind = "raise"
    THEN SubSeq(outs, 1, CHOOSE i \in 1..Len(outs) :
                             /\ outs[i].kind = "raise"
                             /\ \A j \in 1..(i - 1) : outs[j].kind # "raise")
    ELSE outs

\* the try block computing the confidence; est is estimators_, outs what each
\* member's predict would return or raise
confidence_of(est, outs) ==
    IF est = None THEN DefaultConfidence
    ELSE IF \E i \in 1..Len(outs) : outs[i].kind = "raise"
    THEN DefaultConfidence
    ELSE clamp_confidence(np_std(outs))

\* "|".join(parts)
RECURSIVE join(_)
join(parts) ==
    IF parts = << >> THEN << >>
    ELSE IF Len(parts) = 1 THEN parts[1]
    ELSE parts[1] \o << "|" >> \o join(Tail(parts))

\* "|".join([g.strip() for g in req.genres if g.strip()])
row_genres(genres) ==
    LET kept == SelectSeq(genres, LAMBDA g : strip(g) # << >>)
    IN  join([ i \in 1..Len(kept) |-> strip(kept[i]) ])

make_row(r) ==
    [ duration |-> r.duration, budget |-> r.budget, title_year |-> r.title_year,
      content_rating |-> r.content_rating, genres |-> row_genres(r.genres) ]

\* the guard inverted: "in" for "not in"
rejectedInverted(r, allowed) == r.content_rating \in allowed

\* the guard of the handler: the request is rejected
rejected(r, allowed) == r.content_rating \notin allowed

\* PredictResponse validation: confloat(ge=0.0, le=10.0), confloat(ge=0.0, le=1.0)
response_valid(predicted_score, confidence) ==
    /\ predicted_score.kind = "num"
    /\ 0 <= predicted_score.v /\ predicted_score.v <= 1000
    /\ confidence.kind = "num" /\ 0 <= confidence.v /\ confidence.v <= 100

NoBody == [predicted_score |-> NanF, confidence |-> NanF]

\* the requests followed: with and without genres, with a content rating the
\* model may know and one it cannot
Requests ==
    [ duration : {120}, budget : {50000000}, title_year : {2015},
      genres : { << >>, << <<" ", "a">>, <<" ">>, <<"a", "a", " ">> >> },
      content_rating : { "PG-13", "XXX-UNKNOWN" } ]

\* what pipe.predict(X)[0] may give: a score below 0, inside and above
\* [0, 10], nan, or an exception
PipeOutcomes ==
    { Raises, NanF } \cup { Num(v) : v \in { -2500, 6255, 12500 } }

\* what a member's predict(X)[0] may give
EstOutcomes == { Raises, NanF } \cup { Num(v) : v \in { 5000, 6000, 9000 } }

ServerInit ==
    /\ ALLOWED_CONTENT_RATINGS \in SUBSET { "PG-13", "R" }
    /\ estimators_ \in { None } \cup { Some(n) : n \in 0..MaxEst }
    /\ req = None
    /\ pipeX = None
    /\ pipeCalls = 0
    /\ estCalls = 0
    /\ indiv = None
    /\ score = None
    /\ resp = [status |-> 0, body |-> NoBody]

\* the request is refused: HTTPException(400)
predict_rejected(r) ==
    /\ rejected(r, ALLOWED_CONTENT_RATINGS)
    /\ req' = Some(r)
    /\ pipeX' = None
    /\ pipeCalls' = 0
    /\ estCalls' = 0
    /\ indiv' = None
    /\ score' = None
    /\ resp' = [status |-> 400, body |-> NoBody]

\* both calls of pipe.predict raise: the exception leaves the handler
predict_failed(r) ==
    /\ ~rejected(r, ALLOWED_CONTENT_RATINGS)
    /\ req' = Some(r)
    /\ pipeX' = Some(make_row(r))
    /\ pipeCalls' = 2
    /\ estCalls' = 0
    /\ indiv' = None
    /\ score' = None
    /\ resp' = [status |-> 500, body |-> NoBody]

\* pipe.predict returns score, at the first call or at the second
predict_scored(r, calls, sc, outs) ==
    /\ ~rejected(r, ALLOWED_CONTENT_RATINGS)
    /\ req' = Some(r)
    /\ pipeX' = Some(make_row(r))
    /\ pipeCalls' = calls
    /\ estCalls' = IF estimators_ = None THEN 0 ELSE Len(asked(outs))
    /\ indiv' = IF estimators_ = None THEN None ELSE Some(asked(outs))
    /\ score' = Some(sc)
    /\ LET s == round2(clamp_score(sc))
           c == round2(confidence_of(estimators_, outs))
       IN  resp' = IF response_valid(s, c)
                      THEN [status |-> 200,
                            body |-> [predicted_score |-> s, confidence |-> c]]
                      ELSE [status |-> 500, body |-> NoBody]

\* the handler of POST /predict, run for the next request
predict ==
    /\ resp.status = 0
    /\ \E r \in Requests :
           \/ predict_rejected(r)
           \/ predict_failed(r)
           \/ \E calls \in {1, 2}, sc \in PipeOutcomes \ { Raises } :
                  \E outs \in [ 1..(IF estimators_ = None THEN 0
                                    ELSE Get(estimators_)) -> EstOutcomes ] :
                      predict_scored(r, calls, sc, outs)
    /\ UNCHANGED <<ALLOWED_CONTENT_RATINGS, estimators_>>
    /\ UNCHANGED <<gbVars, binVars>>

\* the handler has returned or raised: the answer is sent, the request and
\* the handler's locals are gone, and the route waits for the next request
send_response ==
    /\ resp.status # 0
    /\ req' = None
    /\ pipeX' = None
    /\ pipeCalls' = 0
    /\ estCalls' = 0
    /\ indiv' = None
    /\ score' = None
    /\ resp' = [status |-> 0, body |-> NoBody]
    /\ UNCHANGED <<ALLOWED_CONTENT_RATINGS, estimators_>>
    /\ UNCHANGED <<gbVars, binVars>>

ServerNext == predict \/ send_response

-----------------------------------------------------------------------------
(* Specifications *)

vars == <<gbVars, binVars, srvVars>>

\* one GenresBinarizer instance and its callers
InitGB ==
    /\ GBInit
    /\ y_cont = << >> /\ bin_mode = "quantile" /\ nClasses = N_CLASSES
    /\ fixedEdges = None /\ binned = None /\ num_class = None /\ pc = "idle"
    /\ ALLOWED_CONTENT_RATINGS = {} /\ estimators_ = None /\ req = None
    /\ pipeX = None /\ pipeCalls = 0 /\ estCalls = 0 /\ indiv = None
    /\ score = None
    /\ resp = [status |-> 0, body |-> NoBody]

SpecGB == InitGB /\ [][GBNext]_vars

\* one call of make_bins
InitBins ==
    /\ CallInit
    /\ vocab = None /\ top_k = 0 /\ classes_ = None /\ gbOp = "idle"
    /\ gbX = << >> /\ gbOut = None /\ gbErr = "" /\ gbFits = FALSE
    /\ ALLOWED_CONTENT_RATINGS = {} /\ estimators_ = None /\ req = None
    /\ pipeX = None /\ pipeCalls = 0 /\ estCalls = 0 /\ indiv = None
    /\ score = None
    /\ resp = [status |-> 0, body |-> NoBody]

SpecBins == InitBins /\ [][call_make_bins]_vars

\* one run of the training job
InitTrain ==
    /\ TrainInit
    /\ vocab = None /\ top_k = 0 /\ classes_ = None /\ gbOp = "idle"
    /\ gbX = << >> /\ gbOut = None /\ gbErr = "" /\ gbFits = FALSE
    /\ ALLOWED_CONTENT_RATINGS = {} /\ estimators_ = None /\ req = None
    /\ pipeX = None /\ pipeCalls = 0 /\ estCalls = 0 /\ indiv = None
    /\ score = None
    /\ resp = [status |-> 0, body |-> NoBody]

TrainNext == main_make_bins \/ main_split \/ main_build_clf

SpecTrain == InitTrain /\ [][TrainNext]_vars

\* one serving process and its requests
InitServer ==
    /\ ServerInit
    /\ vocab = None /\ top_k = 0 /\ classes_ = None /\ gbOp = "idle"
    /\ gbX = << >> /\ gbOut = None /\ gbErr = "" /\ gbFits = FALSE
    /\ y_cont = << >> /\ bin_mode = "quantile" /\ nClasses = N_CLASSES
    /\ fixedEdges = None /\ binned = None /\ num_class = None /\ pc = "idle"

SpecServer == InitServer /\ [][ServerNext]_vars

-----------------------------------------------------------------------------
(* Claims about GenresBinarizer, checked under SpecGB *)

Distinct(s) == \A i, j \in 1..Len(s) : i # j => s[i] # s[j]

\* the set of trimmed, non-empty pipe-separated tags of a cell
TagSet(cell) == { strip(p) : p \in Range(split(fillna(cell))) } \ { << >> }

Transformed == gbOp = "transform" /\ gbErr = ""

\* C1: a successful transform returns exactly one vector per input row, each
\* of length len(classes_), each entry 0.0 or 1.0
C1_OutputShape ==
    Transformed =>
        /\ gbOut # None
        /\ DOMAIN Get(gbOut) = 1..Len(gbX)
        /\ \A r \in 1..Len(gbX) :
               /\ DOMAIN Get(gbOut)[r] = 1..Len(Get(classes_))
               /\ \A i \in 1..Len(Get(classes_)) : Get(gbOut)[r][i] \in {0, 1}

\* a two-row column with a missing row and a row of several tags, outside
\* the vocabulary, was transformed
C1_Witness ==
    /\ Transformed
    /\ Len(gbX) = 2
    /\ Len(Get(classes_)) >= 1
    /\ \E r \in 1..2 : gbX[r] = NaN
    /\ \E r \in 1..2 :
           /\ Len(rowTags(gbX[r])) >= 2
           /\ \E g \in TagSet(gbX[r]) : g \notin Range(Get(classes_))

\* C2: with a vocabulary without repeated tokens, output position i is 1.0
\* exactly when vocabulary token i is one of the row's trimmed, non-empty
\* tags (so duplicates add nothing, unknown tags change nothing, and a row
\* without tags is all zero)
C2_SetSemantics ==
    (Transformed /\ Distinct(Get(classes_))) =>
        \A r \in 1..Len(gbX) : \A i \in 1..Len(Get(classes_)) :
            Get(gbOut)[r][i] = 1 <=> Get(classes_)[i] \in TagSet(gbX[r])

\* the row " a|a" was encoded against a vocabulary holding "a" and a second
\* token
C2_Witness ==
    /\ Transformed
    /\ Distinct(Get(classes_))
    /\ Len(Get(classes_)) = 2
    /\ gbX = << Str(<<" ", "a", "|", "a">>) >>
    /\ \E i, j \in 1..2 : Get(gbOut)[1][i] = 1 /\ Get(gbOut)[1][j] = 0

\* C7 as stated: after fit, classes_ holds pairwise distinct tokens and at
\* most top_k of them, whether or not the caller supplied vocab
C7_Original ==
    gbFits => Distinct(Get(classes_)) /\ Len(Get(classes_)) <= top_k

\* C7 as amended: after fit, classes_ holds pairwise distinct tokens and at
\* most top_k of them when vocab is None, and is the caller's list as given
\* when vocab is supplied; no transform call changes classes_
C7_Vocabulary ==
    /\ [](gbFits =>
            /\ vocab = None =>
                   Distinct(Get(classes_)) /\ Len(Get(classes_)) <= top_k
            /\ vocab # None => Get(classes_) = Get(vocab))
    /\ [][gbOp' = "transform" => classes_' = classes_]_vars

\* a frequency-derived vocabulary that the cap cut short: the column held
\* more distinct tokens than top_k
C7_Witness ==
    /\ gbOp = "fit"
    /\ vocab = None
    /\ top_k = 1
    /\ Len(Get(classes_)) = 1
    /\ Cardinality(Range(fitTokens(gbX))) = 2

\* C8: a transform call fails with the not-fitted error exactly when no fit
\* call on the instance precedes it
C8_NotFittedIff ==
    gbOp = "transform" => (gbErr = "RuntimeError" <=> ~gbFits)

\* a transform succeeded after a fit that produced the empty vocabulary
C8_Witness ==
    /\ Transformed
    /\ gbFits
    /\ Get(classes_) = << >>
    /\ Len(gbX) = 2
    /\ \E r \in 1..2 : rowTags(gbX[r]) # << >>

-----------------------------------------------------------------------------
(* Claims about make_bins and main *)

Bins == Get(binned)

HasBins == binned # None /\ Bins.raised = ""

NonDecreasing(e) == \A i \in 1..(Len(e) - 1) : e[i] <= e[i + 1]

\* C3 (SpecTrain): in both modes a value equal to an interior edge edges[i]
\* gets class index i, a value equal to the last edge gets the last class,
\* and with the fixed edges [0, 5, 6.5, 7.5, 8.5, 10] the value 6.5 gets
\* class index 2
C3_Original ==
    HasBins =>
        LET N == Len(Bins.edges) - 1
        IN  \A i \in 1..Len(y_cont) :
                /\ \A j \in 1..(N - 1) :
                       Bins.den * y_cont[i] = Bins.edges[j + 1]
                           => Bins.cls[i] = j
                /\ Bins.den * y_cont[i] = Bins.edges[N + 1]
                       => Bins.cls[i] = N - 1
                /\ (bin_mode = "fixed" /\ y_cont[i] = 13) => Bins.cls[i] = 2

\* C4 (SpecTrain): every class index make_bins returns lies in
\* [0, len(edges) - 2]; in fixed mode for any value, without raising, a value
\* below edges[0] getting 0 and a value above edges[N] getting N - 1; in
\* quantile mode for every value of an input of two or more pairwise
\* different values, for which the realized class count is n_classes = 5
C4_IndexRange ==
    /\ (bin_mode = "fixed" /\ binned # None) =>
           /\ Bins.raised = ""
           /\ \A i \in 1..Len(y_cont) :
                  /\ Bins.cls[i] \in 0..(Len(Bins.edges) - 2)
                  /\ y_cont[i] < Bins.edges[1] => Bins.cls[i] = 0
                  /\ y_cont[i] > Bins.edges[Len(Bins.edges)]
                         => Bins.cls[i] = Len(Bins.edges) - 2
    /\ (bin_mode = "quantile" /\ binned # None
            /\ Len(y_cont) >= 2 /\ Distinct(y_cont)) =>
           /\ Bins.raised = ""
           /\ Len(Bins.edges) - 1 = N_CLASSES
           /\ \A i \in 1..Len(y_cont) :
                  Bins.cls[i] \in 0..(Len(Bins.edges) - 2)

\* fixed mode binned a column holding a value below the first edge and a
\* value above the last one
C4_Witness ==
    /\ HasBins
    /\ bin_mode = "fixed"
    /\ \E i, j \in 1..Len(y_cont) :
           /\ y_cont[i] < Bins.edges[1] /\ Bins.cls[i] = 0
           /\ y_cont[j] > Bins.edges[Len(Bins.edges)] /\ Bins.cls[j] = 4

\* C9 (SpecBins): in fixed mode make_bins fails, returning nothing, whenever
\* fixed_edges is missing, has not n_classes + 1 entries, or is not
\* monotonically non-decreasing
C9_Original ==
    (pc = "done" /\ bin_mode = "fixed"
        /\ (\/ fixedEdges = None
            \/ Len(Get(fixedEdges)) # nClasses + 1
            \/ ~NonDecreasing(Get(fixedEdges)))) =>
        /\ Bins.raised # ""
        /\ Bins.cls = << >> /\ Bins.edges = << >> /\ Bins.labels = << >>

\* C10 (SpecTrain): the num_class main configures equals the realized class
\* count len(edges) - 1 = len(class_labels)
C10_Original ==
    pc = "built" =>
        /\ Get(num_class) = Len(Bins.edges) - 1
        /\ Len(Bins.edges) - 1 = Len(Bins.labels)

-----------------------------------------------------------------------------
(* Claims about the /predict handler, checked under SpecServer *)

\* C5: a request whose content_rating is not in the allowed set is answered
\* 400 without any call of pipe.predict or of a member estimator and without
\* a prediction; the answer is sent and the handler then takes the next
\* request
C5_RejectedBeforeModel ==
    /\ (req # None /\ Get(req).content_rating \notin ALLOWED_CONTENT_RATINGS) =>
           /\ resp.status = 400
           /\ pipeCalls = 0
           /\ estCalls = 0
           /\ pipeX = None
           /\ score = None
           /\ resp.body = NoBody
           /\ ENABLED send_response
    /\ req = None => ENABLED predict

\* a request with an unknown rating was refused by a server that allows
\* other ratings
C5_Witness ==
    /\ req # None
    /\ Get(req).content_rating = "XXX-UNKNOWN"
    /\ "PG-13" \in ALLOWED_CONTENT_RATINGS
    /\ resp.status = 400

MemberRaised ==
    indiv # None /\ \E i \in 1..Len(Get(indiv)) : Get(indiv)[i].kind = "raise"

\* C6: whatever pipe.predict and the members return, the response is
\* successful with predicted_score in [0, 10] and confidence in [0, 1]; the
\* confidence is 0.5 when the model has no member estimators or a member's
\* prediction raises
C6_ResponseRanges ==
    /\ score # None => resp.status = 200
    /\ resp.status = 200 =>
           /\ resp.body.predicted_score.kind = "num"
           /\ resp.body.predicted_score.v \in 0..1000
           /\ resp.body.confidence.kind = "num"
           /\ resp.body.confidence.v \in 0..100
           /\ (estimators_ = None \/ MemberRaised)
                  => resp.body.confidence = Num(50)

\* the model returned a score below 0 and the second member raised
C6_Witness ==
    /\ resp.status = 200
    /\ score = Some(Num(-2500))
    /\ resp.body.predicted_score = Num(0)
    /\ MemberRaised
    /\ estCalls = 2
    /\ resp.body.confidence = Num(50)

=============================================================================
